---- MODULE Spec2Model ----
(***************************************************************************)
(* Model of regexp.py (make_regex.py): the text-to-pattern compiler.       *)
(*                                                                         *)
(* A text and a pattern are sequences of code points.  A code point is a   *)
(* string: an ASCII character stands for itself, any other code point is   *)
(* written "U+XXXX".  Indices are those of the Python source (0-based);    *)
(* At(s, i) is s[i] and Slice(s, a, b) is s[a:b].                          *)
(***************************************************************************)
EXTENDS Integers, Sequences, FiniteSets, TLC

VARIABLES text1, text2, pc, s, i, parts, calls, regex1, stdout, stderr, rc

vars == <<text1, text2, pc, s, i, parts, calls, regex1, stdout, stderr, rc>>

(***************************************************************************)
(* Bounds of the model                                                     *)
(***************************************************************************)
MaxLen == 5
MaxPlainLen == 3
MaxArgLen == 2

\* Python's None: a value that is no text (no code point is named "None")
None == <<"None">>

(***************************************************************************)
(* Python string primitives                                                *)
(***************************************************************************)
At(str, k) == str[k + 1]

Slice(str, a, b) == SubSeq(str, a + 1, b)

Range(f) == {f[k] : k \in DOMAIN f}

Lowers == <<"a", "b", "c", "d", "e", "f", "g", "h", "i", "j", "k", "l", "m",
            "n", "o", "p", "q", "r", "s", "t", "u", "v", "w", "x", "y", "z">>

Uppers == <<"A", "B", "C", "D", "E", "F", "G", "H", "I", "J", "K", "L", "M",
            "N", "O", "P", "Q", "R", "S", "T", "U", "V", "W", "X", "Y", "Z">>

Digits == <<"0", "1", "2", "3", "4", "5", "6", "7", "8", "9">>

\* U+00E1 a-acute, U+00C1 A-acute, U+00AA feminine ordinal indicator (a letter
\* without case), U+212A KELVIN SIGN (upper case, lower-cases to "k").
OtherLetters == {"U+00E1", "U+00C1", "U+00AA", "U+212A"}

IndexIn(seq, c) == IF \E k \in DOMAIN seq : seq[k] = c
                   THEN CHOOSE k \in DOMAIN seq : seq[k] = c
                   ELSE 0

\* str.isspace()
isspace(c) == c \in {" ", "\t", "\n", "U+00A0"}

\* str.isalpha()
isalpha(c) == c \in Range(Lowers) \cup Range(Uppers) \cup OtherLetters

\* str.lower(), on one code point
lower(c) ==
    CASE IndexIn(Uppers, c) # 0 -> Lowers[IndexIn(Uppers, c)]
      [] c = "U+00C1" -> "U+00E1"
      [] c = "U+212A" -> "k"
      [] OTHER -> c

\* str.upper(), on one code point
upper(c) ==
    CASE IndexIn(Lowers, c) # 0 -> Uppers[IndexIn(Lowers, c)]
      [] c = "U+00E1" -> "U+00C1"
      [] OTHER -> c

\* f"{count}": the decimal digits of a natural number
RECURSIVE format_int(_)
format_int(n) == IF n < 10 THEN <<Digits[n + 1]>>
                 ELSE format_int(n \div 10) \o <<Digits[(n % 10) + 1]>>

\* re.escape(ch): the characters re.escape puts a backslash before
SpecialChars == {"(", ")", "[", "]", "{", "}", "?", "*", "+", "-", "|", "^",
                 "$", "\\", ".", "&", "~", "#", " ", "\t", "\n"}

re_escape(ch) == IF ch \in SpecialChars THEN <<"\\", ch>> ELSE <<ch>>

\* content.find('/'): the first index of c in str, -1 when there is none
find(str, c) == IF \E k \in 0..(Len(str) - 1) : At(str, k) = c
                THEN CHOOSE k \in 0..(Len(str) - 1) :
                        /\ At(str, k) = c
                        /\ \A m \in 0..(k - 1) : At(str, m) # c
                ELSE -1

\* str.strip(): leading and trailing whitespace removed
RECURSIVE lstrip(_)
lstrip(str) == IF Len(str) > 0 /\ isspace(Head(str)) THEN lstrip(Tail(str))
               ELSE str

RECURSIVE rstrip(_)
rstrip(str) == IF Len(str) > 0 /\ isspace(str[Len(str)])
               THEN rstrip(SubSeq(str, 1, Len(str) - 1))
               ELSE str

\* strip that leaves the trailing whitespace
strip_left_only(str) == lstrip(str)

strip(str) == rstrip(lstrip(str))

\* "".join(parts)
RECURSIVE join(_)
join(ps) == IF ps = <<>> THEN <<>> ELSE Head(ps) \o join(Tail(ps))

(***************************************************************************)
(* The ValueError messages                                                 *)
(***************************************************************************)
UnmatchedParen == "Unmatched '(' in input"

UnmatchedBrace == "Unmatched '{' in input; expected '}' for placeholder {digit/number}"

InvalidPlaceholder == "Invalid placeholder; expected format {digit/number}"

\* a raise: the error, and the recursive build_regex calls made before it
Raised(e, made) == [ok |-> FALSE, err |-> e, calls |-> made]

\* a return of make_regex_segment: (part, j), and the strings it passed to
\* build_regex on the way
Returned(p, next, made) == [ok |-> TRUE, part |-> p, j |-> next, calls |-> made]

(***************************************************************************)
(* find_matching_paren: the index of the ')' matching s[start] = '(',      *)
(* -1 when the loop ends without one (the ValueError).                     *)
(***************************************************************************)
RECURSIVE paren_loop(_, _, _)
paren_loop(str, k, depth) ==
    IF k >= Len(str) THEN -1
    ELSE IF At(str, k) = "(" THEN paren_loop(str, k + 1, depth + 1)
    ELSE IF At(str, k) = ")"
         THEN IF depth - 1 = 0 THEN k ELSE paren_loop(str, k + 1, depth - 1)
    ELSE paren_loop(str, k + 1, depth)

\* find_matching_paren without the depth count: the first ')' after start
find_first_close(str, start) ==
    IF \E k \in start..(Len(str) - 1) : At(str, k) = ")"
    THEN CHOOSE k \in start..(Len(str) - 1) :
            At(str, k) = ")" /\ \A m \in start..(k - 1) : At(str, m) # ")"
    ELSE -1

find_matching_paren(str, start) == paren_loop(str, start, 0)

(***************************************************************************)
(* The scanning loops of make_regex_segment                                *)
(***************************************************************************)
RECURSIVE space_loop(_, _, _)
space_loop(str, j, end) ==
    IF j < end /\ isspace(At(str, j)) THEN space_loop(str, j + 1, end) ELSE j

RECURSIVE brace_loop(_, _, _)
brace_loop(str, j, end) ==
    IF j < end /\ At(str, j) # "}" THEN brace_loop(str, j + 1, end) ELSE j

\* letter_loop comparing the letters themselves instead of their lower case
RECURSIVE letter_loop_exact(_, _, _, _)
letter_loop_exact(str, j, end, ch) ==
    IF j < end /\ isalpha(At(str, j)) /\ At(str, j) = ch
    THEN letter_loop_exact(str, j + 1, end, ch) ELSE j

RECURSIVE letter_loop(_, _, _, _)
letter_loop(str, j, end, ch) ==
    IF j < end /\ isalpha(At(str, j)) /\ lower(At(str, j)) = lower(ch)
    THEN letter_loop(str, j + 1, end, ch) ELSE j

RECURSIVE literal_loop(_, _, _, _)
literal_loop(str, j, end, ch) ==
    IF j < end /\ ~isspace(At(str, j)) /\ At(str, j) # "(" /\ At(str, j) # ")"
       /\ At(str, j) = ch
    THEN literal_loop(str, j + 1, end, ch) ELSE j

\* strip_accents(c): NFD-decompose and drop the combining marks
strip_accents(c) ==
    CASE c = "U+00E1" -> <<"a">>
      [] c = "U+00C1" -> <<"A">>
      [] c = "U+212A" -> <<"K">>
      [] OTHER -> <<c>>

\* add_c(c) on the ordered list: c.lower() and c.upper(), each unless seen
add_c(ordered, c) ==
    LET one == IF lower(c) \in Range(ordered) THEN ordered
               ELSE Append(ordered, lower(c))
    IN IF upper(c) \in Range(one) THEN one ELSE Append(one, upper(c))

\* the bracket of a letter: base forms first, then the letter's own forms
ordered_chars(ch) ==
    LET base == strip_accents(ch)
        first == IF base # <<>> /\ Len(base) = 1 /\ isalpha(base[1])
                    /\ lower(base[1]) # lower(ch)
                 THEN add_c(<<>>, base[1]) ELSE <<>>
    IN add_c(first, ch)

\* repeat without the suffix
repeat_dropped(count) == <<>>

\* the {count} suffix of a run
repeat(count) == IF count > 1 THEN <<"{">> \o format_int(count) \o <<"}">> ELSE <<>>

\* f"(?:{inner})?"
optional_group(inner) == <<"(", "?", ":">> \o inner \o <<")", "?">>

\* f"(?:{left_regex})|(?:{right_regex})"
alternation(l, r) ==
    <<"(", "?", ":">> \o l \o <<")", "|", "(", "?", ":">> \o r \o <<")">>

(***************************************************************************)
(* make_regex_segment and build_regex (mutually recursive)                 *)
(***************************************************************************)
RECURSIVE make_regex_segment(_, _, _)
RECURSIVE build_loop(_, _, _)

\* build_regex(s): [ok |-> TRUE, re |-> pattern] or the ValueError raised
build_regex(str) == build_loop(str, 0, <<>>)

build_loop(str, k, ps) ==
    IF k < Len(str)
    THEN LET r == make_regex_segment(str, k, Len(str))
         IN IF r.ok THEN build_loop(str, r.j, Append(ps, r.part))
            ELSE [ok |-> FALSE, err |-> r.err]
    ELSE [ok |-> TRUE, re |-> join(ps)]

\* group_segment taking a '(' without its ')' as a literal character
group_segment_lenient(str, k) ==
    LET j == find_matching_paren(str, k)
    IN IF j = -1 THEN Returned(re_escape("("), k + 1, <<>>)
       ELSE LET arg == Slice(str, k + 1, j)
                inner == build_regex(arg)
            IN IF ~inner.ok THEN Raised(inner.err, <<arg>>)
               ELSE Returned(optional_group(inner.re), j + 1, <<arg>>)

\* the '(' branch: a recursive optional group
group_segment(str, k) ==
    LET j == find_matching_paren(str, k)
    IN IF j = -1 THEN Raised(UnmatchedParen, <<>>)
       ELSE LET arg == Slice(str, k + 1, j)
                inner == build_regex(arg)
            IN IF ~inner.ok THEN Raised(inner.err, <<arg>>)
               ELSE Returned(optional_group(inner.re), j + 1, <<arg>>)

\* placeholder_segment taking a body without '/' as its left side
placeholder_segment_lenient(str, k, end) ==
    LET j == brace_loop(str, k + 1, end)
    IN IF j >= end \/ At(str, j) # "}" THEN Raised(UnmatchedBrace, <<>>)
       ELSE LET content == Slice(str, k + 1, j)
                sep == IF find(content, "/") = -1 THEN Len(content)
                       ELSE find(content, "/")
                left == strip(Slice(content, 0, sep))
                right == strip(Slice(content, sep + 1, Len(content)))
                left_regex == build_regex(left)
                right_regex == build_regex(right)
            IN IF ~left_regex.ok THEN Raised(left_regex.err, <<left>>)
               ELSE IF ~right_regex.ok
                    THEN Raised(right_regex.err, <<left, right>>)
               ELSE Returned(alternation(left_regex.re, right_regex.re),
                             j + 1, <<left, right>>)

\* the '{' branch: the placeholder {digit/number}
placeholder_segment(str, k, end) ==
    LET j == brace_loop(str, k + 1, end)
    IN IF j >= end \/ At(str, j) # "}" THEN Raised(UnmatchedBrace, <<>>)
       ELSE LET content == Slice(str, k + 1, j)
                sep == find(content, "/")
            IN IF sep = -1 THEN Raised(InvalidPlaceholder, <<>>)
               ELSE LET left == strip(Slice(content, 0, sep))
                        right == strip(Slice(content, sep + 1, Len(content)))
                        left_regex == build_regex(left)
                        right_regex == build_regex(right)
                    IN IF ~left_regex.ok THEN Raised(left_regex.err, <<left>>)
                       ELSE IF ~right_regex.ok
                            THEN Raised(right_regex.err, <<left, right>>)
                       ELSE Returned(alternation(left_regex.re, right_regex.re),
                                     j + 1, <<left, right>>)

\* the letter branch: a case-insensitive bracket and the repeat count
letter_segment(str, k, end) ==
    LET ch == At(str, k)
        j == letter_loop(str, k + 1, end, ch)
    IN Returned(<<"[">> \o ordered_chars(ch) \o <<"]">> \o repeat(j - k), j, <<>>)

\* literal_segment that returns a cursor beyond the end of the string
literal_segment_overrun(str, k, end) ==
    Returned(re_escape(At(str, k)), end + 1, <<>>)

\* the last branch: the character escaped and the repeat count
literal_segment(str, k, end) ==
    LET ch == At(str, k)
        j == literal_loop(str, k + 1, end, ch)
    IN Returned(re_escape(ch) \o repeat(j - k), j, <<>>)

\* the whitespace branch: \s+
space_segment(str, k, end) ==
    Returned(<<"\\", "s", "+">>, space_loop(str, k + 1, end), <<>>)

make_regex_segment(str, k, end) ==
    LET ch == At(str, k)
    IN IF isspace(ch) THEN space_segment(str, k, end)
       ELSE IF ch = "(" THEN group_segment(str, k)
       ELSE IF ch = "{" THEN placeholder_segment(str, k, end)
       ELSE IF isalpha(ch) THEN letter_segment(str, k, end)
       ELSE literal_segment(str, k, end)

\* make_regex(text): the public wrapper
make_regex(text) == build_regex(text)

(***************************************************************************)
(* Inputs                                                                  *)
(***************************************************************************)
RECURSIVE Texts(_, _)
Texts(sigma, n) ==
    IF n = 0 THEN {<<>>}
    ELSE LET shorter == Texts(sigma, n - 1)
         IN shorter \cup {Append(t, c) : t \in {u \in shorter : Len(u) = n - 1}, c \in sigma}

\* the characters of the structured texts
Sigma == {"a", "(", ")", "{", "}", "/"}

\* the characters of the plain texts: letters of both cases, an accented
\* letter, a letter without case, the Kelvin sign, two whitespace characters,
\* a symbol re.escape leaves alone and one it escapes
SigmaPlain == {"k", "K", "U+212A", "U+00E1", "U+00AA", " ", "\t", "!", "."}

Hi == <<"H", "i">>

Bye == <<"B", "y", "e">>

Hello == <<"H", "e", "l", "l", "o">>

GoodJob == <<"G", "o", "o", "d", " ", " ", " ", "j", "o", "b", "!", "!">>

Mixed == <<"k", "K", "U+00E1", " ", "\t", ".", ".">>

Colour == <<"c", "o", "l", "o", "(", "u", ")", "r">>

Nested == <<"a", "(", "b", "(", "c", ")", "d", ")", "e">>

Siblings == <<"(", "a", ")", "(", "b", ")">>

TwoTwo == <<"{", "2", "/", "t", "w", "o", "}">>

Cats == <<"I", " ", "h", "a", "v", "e", " ", "{", "2", "/", "t", "w", "o", "}",
          " ", "c", "a", "t", "s">>

Gatos == <<"T", "e", "n", "g", "o", " ", "{", "2", "/", "d", "o", "s", "}",
           " ", "g", "a", "t", "o", "s">>

Spaced == <<"{", " ", "2", " ", "/", " ", "t", "w", "o", "\t", "}", "!">>

InGroup == <<"(", "a", " ", "{", "a", "/", "b", " ", "c", "}", ")", "d">>

BadParen == <<"c", "o", "l", "o", "(", "u">>

BadPlaceholder == <<"I", " ", "h", "a", "v", "e", " ", "{", "2", " ", "t", "w",
                    "o", "}", " ", "c", "a", "t", "s">>

BadBrace == <<"e", "n", "d", "{", "2", "/", "t", "w", "o">>

BadInGroup == <<"a", "(", "b", "{", "c", ")", "d">>

BadInSide == <<"{", "a", "/", "(", "b", "}">>

\* the examples of the module docstring and of the help text, and variations
Examples == {Colour, Nested, Siblings, TwoTwo, Cats, Spaced, InGroup, BadParen,
             BadPlaceholder, BadBrace, BadInGroup, BadInSide}

PlainExamples == {Hi, Hello, GoodJob, Mixed}

ExamplePairs == {<<Hi, Bye>>, <<Cats, Gatos>>, <<Hi, BadParen>>,
                 <<BadParen, BadBrace>>, <<BadPlaceholder, Hi>>,
                 <<BadInGroup, None>>, <<BadInSide, BadParen>>,
                 <<BadBrace, None>>, <<Nested, None>>}

(***************************************************************************)
(* main(): regex1 = make_regex(text1), then regex2 when text2 is given,    *)
(* then print; a ValueError goes to stderr and the exit status is 2.       *)
(* The loop of the outermost build_regex call is taken one segment at a    *)
(* time: s is its string, i its cursor, parts its list.  calls records the *)
(* strings the last make_regex_segment call passed to build_regex; rc is   *)
(* -1 until main returns.                                                  *)
(***************************************************************************)
Start(t1, t2) ==
    /\ text1 = t1
    /\ text2 = t2
    /\ pc = "regex1"
    /\ s = t1
    /\ i = 0
    /\ parts = <<>>
    /\ calls = <<>>
    /\ regex1 = None
    /\ stdout = <<>>
    /\ stderr = <<>>
    /\ rc = -1

Init == \E t1 \in Texts(Sigma, MaxLen) \cup Examples : Start(t1, None)

InitPlain == \E t1 \in Texts(SigmaPlain, MaxPlainLen) \cup PlainExamples : Start(t1, None)

InitMain ==
    \/ \E t1 \in Texts(Sigma, MaxArgLen), t2 \in Texts(Sigma, MaxArgLen) \cup {None} :
          Start(t1, t2)
    \/ \E pair \in ExamplePairs : Start(pair[1], pair[2])

Building == pc \in {"regex1", "regex2"}

\* the loop condition holds and make_regex_segment returns
CanSegment == Building /\ i < Len(s) /\ make_regex_segment(s, i, Len(s)).ok

\* the loop condition holds and make_regex_segment raises
CanRaise == Building /\ i < Len(s) /\ ~make_regex_segment(s, i, Len(s)).ok

\* the loop condition fails
CanReturn == Building /\ i >= Len(s)

\* one iteration of build_regex's while loop: part, i = make_regex_segment(s, i, n)
Segment ==
    /\ CanSegment
    /\ LET r == make_regex_segment(s, i, Len(s))
       IN /\ parts' = Append(parts, r.part)
          /\ i' = r.j
          /\ calls' = r.calls
    /\ UNCHANGED <<text1, text2, pc, s, regex1, stdout, stderr, rc>>

\* make_regex_segment raises: main's except clause prints the error, returns 2
Raise ==
    /\ CanRaise
    /\ LET r == make_regex_segment(s, i, Len(s))
       IN /\ stderr' = <<"Error:", r.err>>
          /\ calls' = r.calls
    /\ rc' = 2
    /\ pc' = "exit"
    /\ UNCHANGED <<text1, text2, s, i, parts, regex1, stdout>>

\* Return that prints the second pattern without the first
Return_second_only ==
    /\ CanReturn
    /\ IF pc = "regex1" /\ text2 # None
       THEN /\ regex1' = join(parts)
            /\ pc' = "regex2"
            /\ s' = text2
            /\ i' = 0
            /\ parts' = <<>>
            /\ calls' = <<>>
            /\ UNCHANGED <<stdout, rc>>
       ELSE /\ stdout' = <<join(parts)>>
            /\ regex1' = IF pc = "regex1" THEN join(parts) ELSE regex1
            /\ rc' = 0
            /\ pc' = "exit"
            /\ UNCHANGED <<s, i, parts, calls>>
    /\ UNCHANGED <<text1, text2, stderr>>

\* the while loop ends: build_regex returns "".join(parts) to main, which
\* goes on to text2 or prints the result and returns 0
Return ==
    /\ CanReturn
    /\ IF pc = "regex1" /\ text2 # None
       THEN /\ regex1' = join(parts)
            /\ pc' = "regex2"
            /\ s' = text2
            /\ i' = 0
            /\ parts' = <<>>
            /\ calls' = <<>>
            /\ UNCHANGED <<stdout, rc>>
       ELSE /\ stdout' = IF pc = "regex2"
                         THEN <<alternation(regex1, join(parts))>>
                         ELSE <<join(parts)>>
            /\ regex1' = IF pc = "regex1" THEN join(parts) ELSE regex1
            /\ rc' = 0
            /\ pc' = "exit"
            /\ UNCHANGED <<s, i, parts, calls>>
    /\ UNCHANGED <<text1, text2, stderr>>

Next == Segment \/ Raise \/ Return

NextPlain == Segment \/ Return

\* one text over the structured characters
Spec == Init /\ [][Next]_vars

\* one text without parentheses and braces
SpecPlain == InitPlain /\ [][NextPlain]_vars

\* two texts
SpecMain == InitMain /\ [][Next]_vars

(***************************************************************************)
(* The pattern dialect: what a pattern matches.  fullmatch(p, w) holds     *)
(* when the whole of w matches p, for the constructs the compiler emits:   *)
(* [...] classes, \s, escaped and plain characters, (?:...) groups, |,     *)
(* and the quantifiers ?, + and {n}.  Each re_ operator reads p from index *)
(* k and maps the set S of positions of w where a match may start to the   *)
(* set where it may end.                                                   *)
(***************************************************************************)
RECURSIVE parse_int(_)
parse_int(ds) == IF ds = <<>> THEN 0
                 ELSE 10 * parse_int(SubSeq(ds, 1, Len(ds) - 1))
                      + (IndexIn(Digits, ds[Len(ds)]) - 1)

one_char(w, S, set) == {x + 1 : x \in {y \in S : y < Len(w) /\ At(w, y) \in set}}

one_space(w, S) == {x + 1 : x \in {y \in S : y < Len(w) /\ isspace(At(w, y))}}

RECURSIVE re_alt(_, _, _, _)
RECURSIVE re_seq(_, _, _, _)
RECURSIVE re_item(_, _, _, _)
RECURSIVE re_atom(_, _, _, _)
RECURSIVE re_times(_, _, _, _, _)
RECURSIVE re_plus(_, _, _, _)

re_atom(p, k, w, S) ==
    IF At(p, k) = "["
    THEN LET c == k + 1 + find(Slice(p, k + 1, Len(p)), "]")
         IN [pos |-> c + 1, ends |-> one_char(w, S, Range(Slice(p, k + 1, c)))]
    ELSE IF At(p, k) = "\\"
    THEN [pos |-> k + 2,
          ends |-> IF At(p, k + 1) = "s" THEN one_space(w, S)
                   ELSE one_char(w, S, {At(p, k + 1)})]
    ELSE IF At(p, k) = "("
    THEN LET r == re_alt(p, k + 3, w, S)
         IN [pos |-> r.pos + 1, ends |-> r.ends]
    ELSE [pos |-> k + 1, ends |-> one_char(w, S, {At(p, k)})]

re_times(p, k, w, S, n) ==
    IF n = 0 THEN S ELSE re_times(p, k, w, re_atom(p, k, w, S).ends, n - 1)

re_plus(p, k, w, S) ==
    LET more == re_atom(p, k, w, S).ends
    IN IF more \subseteq S THEN S ELSE re_plus(p, k, w, S \cup more)

re_item(p, k, w, S) ==
    LET a == re_atom(p, k, w, S)
        q == IF a.pos < Len(p) THEN At(p, a.pos) ELSE ""
    IN IF q = "?" THEN [pos |-> a.pos + 1, ends |-> S \cup a.ends]
       ELSE IF q = "+" THEN [pos |-> a.pos + 1, ends |-> re_plus(p, k, w, a.ends)]
       ELSE IF q = "{"
       THEN LET c == a.pos + find(Slice(p, a.pos, Len(p)), "}")
            IN [pos |-> c + 1,
                ends |-> re_times(p, k, w, S, parse_int(Slice(p, a.pos + 1, c)))]
       ELSE a

re_seq(p, k, w, S) ==
    IF k >= Len(p) \/ At(p, k) \in {"|", ")"} THEN [pos |-> k, ends |-> S]
    ELSE LET r == re_item(p, k, w, S) IN re_seq(p, r.pos, w, r.ends)

re_alt(p, k, w, S) ==
    LET r == re_seq(p, k, w, S)
    IN IF r.pos < Len(p) /\ At(p, r.pos) = "|"
       THEN LET r2 == re_alt(p, r.pos + 1, w, S)
            IN [pos |-> r2.pos, ends |-> r.ends \cup r2.ends]
       ELSE r

fullmatch(p, w) == Len(w) \in re_alt(p, 0, w, {0}).ends

(***************************************************************************)
(* Runs, as the claims describe them                                       *)
(***************************************************************************)
Plain(t) == \A x \in DOMAIN t : t[x] \notin {"(", ")", "{", "}"}

\* d continues the run that c starts
SameRun(c, d) ==
    IF isspace(c) THEN isspace(d)
    ELSE IF isalpha(c) THEN isalpha(d) /\ lower(d) = lower(c)
    ELSE d = c

\* the length of the maximal run of c's kind at the head of t
RECURSIVE RunLength(_, _)
RunLength(t, c) ==
    IF t # <<>> /\ SameRun(c, Head(t)) THEN 1 + RunLength(Tail(t), c) ELSE 0

Suffix(k) == IF k > 1 THEN <<"{">> \o format_int(k) \o <<"}">> ELSE <<>>

RECURSIVE Distinct(_)
Distinct(q) ==
    IF q = <<>> THEN <<>>
    ELSE LET front == Distinct(SubSeq(q, 1, Len(q) - 1))
         IN IF q[Len(q)] \in Range(front) THEN front ELSE Append(front, q[Len(q)])

\* '[' + lower(first) + upper(first) + ']'
ClaimedBracket(c) == <<"[", lower(c), upper(c), "]">>

\* the bracket with the unaccented base letter's forms first, no character twice
AmendedBracket(c) ==
    LET b == strip_accents(c)
        widened == Len(b) = 1 /\ isalpha(b[1]) /\ lower(b[1]) # lower(c)
    IN <<"[">>
       \o Distinct((IF widened THEN <<lower(b[1]), upper(b[1])>> ELSE <<>>)
                   \o <<lower(c), upper(c)>>)
       \o <<"]">>

\* one fragment per maximal run, in order
RECURSIVE RunsPattern(_, _)
RunsPattern(t, amended) ==
    IF t = <<>> THEN <<>>
    ELSE LET c == Head(t)
             k == RunLength(t, c)
             fragment ==
                 IF isspace(c) THEN <<"\\", "s", "+">>
                 ELSE IF isalpha(c)
                 THEN (IF amended THEN AmendedBracket(c) ELSE ClaimedBracket(c))
                      \o Suffix(k)
                 ELSE re_escape(c) \o Suffix(k)
         IN fragment \o RunsPattern(SubSeq(t, k + 1, Len(t)), amended)

HiPattern == <<"[", "h", "H", "]", "[", "i", "I", "]">>

GoodJobPattern ==
    <<"[", "g", "G", "]", "[", "o", "O", "]", "{", "2", "}", "[", "d", "D", "]",
      "\\", "s", "+", "[", "j", "J", "]", "[", "o", "O", "]", "[", "b", "B", "]",
      "!", "{", "2", "}">>

Succeeded == pc = "exit" /\ rc = 0

Failed == pc = "exit" /\ rc = 2

(***************************************************************************)
(* C1: for a text without parentheses and braces build_regex returns the   *)
(* concatenation of one fragment per maximal run: \s+ for a whitespace     *)
(* run, '[' + lower(first) + upper(first) + ']' for a run of letters equal *)
(* under lower-casing, the escaped character for a run of one symbol, the  *)
(* last two followed by {k} exactly when the run is longer than 1.         *)
(*                                                                         *)
(* C1_Original states it with the bracket as claimed.  C1_Amended states   *)
(* it with the bracket the code builds: the lower and upper case of the    *)
(* unaccented base letter first when the letter is accented, then the      *)
(* lower and upper case of the letter, no character twice.                 *)
(***************************************************************************)
\* C1 as stated: the pattern of a text without parentheses and braces is one
\* fragment per maximal run, a letter run giving '[' + lower + upper + ']'
C1_Original ==
    (pc = "exit" /\ Plain(text1)) =>
        (rc = 0 /\ stdout = <<RunsPattern(text1, FALSE)>>)

\* C1 as amended: the same, a letter run giving the bracket the code builds
\* (base letter's forms first for an accented letter, no character twice);
\* it holds of the parts after every segment, and of the examples "Hi" and
\* "Good   job!!"
C1_Amended ==
    /\ (Building /\ Plain(s)) => join(parts) = RunsPattern(Slice(s, 0, i), TRUE)
    /\ (pc = "exit" /\ Plain(text1)) =>
           (rc = 0 /\ stdout = <<RunsPattern(text1, TRUE)>>)
    /\ (pc = "exit" /\ text1 = Hi) => stdout = <<HiPattern>>
    /\ (pc = "exit" /\ text1 = GoodJob) => stdout = <<GoodJobPattern>>

\* a run of letters of both cases, an accented letter, a run of two whitespace
\* characters, a run of an escaped symbol
C1_Witness ==
    /\ Succeeded
    /\ text1 = Mixed
    /\ stdout = << <<"[", "k", "K", "]", "{", "2", "}",
                     "[", "a", "A", "U+00E1", "U+00C1", "]", "\\", "s", "+",
                     "\\", ".", "{", "2", "}">> >>

(***************************************************************************)
(* C8: the pattern of a text T without parentheses and braces, matched     *)
(* against a whole string, matches T and every case permutation of T, and  *)
(* matches no string obtained from T by changing the length of a run of    *)
(* identical characters.                                                   *)
(***************************************************************************)
\* for each position of t, the first character of the run it lies in
RECURSIVE RunHeads(_)
RunHeads(t) ==
    IF t = <<>> THEN <<>>
    ELSE LET k == RunLength(t, Head(t))
         IN [x \in 1..k |-> Head(t)] \o RunHeads(SubSeq(t, k + 1, Len(t)))

\* the strings that differ from t by the case of letters: a letter c becomes
\* lower(c) or upper(c)
RECURSIVE CasePermutations(_)
CasePermutations(t) ==
    IF t = <<>> THEN {<<>>}
    ELSE {<<c>> \o rest :
            c \in (IF isalpha(Head(t)) THEN {lower(Head(t)), upper(Head(t))}
                   ELSE {Head(t)}),
            rest \in CasePermutations(Tail(t))}

\* the strings in which every letter is the lower or upper case of the first
\* letter of its run
RECURSIVE RunCaseForms(_, _)
RunCaseForms(t, heads) ==
    IF t = <<>> THEN {<<>>}
    ELSE {<<c>> \o rest :
            c \in (IF isalpha(Head(t)) THEN {lower(Head(heads)), upper(Head(heads))}
                   ELSE {Head(t)}),
            rest \in RunCaseForms(Tail(t), Tail(heads))}

\* the maximal runs of one code point: <<first index, length>>
IdenticalRuns(t) ==
    {<<a, k>> \in (1..Len(t)) \X (1..Len(t)) :
        /\ a + k - 1 <= Len(t)
        /\ \A x \in a..(a + k - 1) : t[x] = t[a]
        /\ (a > 1 => t[a - 1] # t[a])
        /\ (a + k <= Len(t) => t[a + k] # t[a])}

\* t with the run <<a, k>> made m long
Resized(t, a, k, m) ==
    SubSeq(t, 1, a - 1) \o [x \in 1..m |-> t[a]] \o SubSeq(t, a + k, Len(t))

\* the strings obtained by changing the length of one run; spaces tells
\* whether the runs of a whitespace character are among them
RunLengthChanges(t, spaces) ==
    UNION {{Resized(t, r[1], r[2], m) : m \in (1..(r[2] + 1)) \ {r[2]}} :
              r \in {q \in IdenticalRuns(t) : isspace(t[q[1]]) = spaces}}

Count(t, c) == Cardinality({x \in DOMAIN t : t[x] = c})

\* the nesting depth counted from index a up to and including index b
Depth(t, a, b) == Count(Slice(t, a, b + 1), "(") - Count(Slice(t, a, b + 1), ")")

HasClose(t, k) == \E j \in (k + 1)..(Len(t) - 1) : Depth(t, k, j) = 0

\* the index at which the depth counted from k first returns to zero
MatchingClose(t, k) ==
    CHOOSE j \in (k + 1)..(Len(t) - 1) :
        Depth(t, k, j) = 0 /\ \A m \in (k + 1)..(j - 1) : Depth(t, k, m) # 0

HasBrace(t, k) == \E j \in (k + 1)..(Len(t) - 1) : At(t, j) = "}"

\* the index of the next '}' after k
NextBrace(t, k) ==
    CHOOSE j \in (k + 1)..(Len(t) - 1) :
        At(t, j) = "}" /\ \A m \in (k + 1)..(j - 1) : At(t, m) # "}"

\* t without its leading and trailing whitespace
Trimmed(t) ==
    LET solid == {x \in DOMAIN t : ~isspace(t[x])}
    IN IF solid = {} THEN <<>>
       ELSE SubSeq(t, CHOOSE x \in solid : \A y \in solid : x <= y,
                      CHOOSE x \in solid : \A y \in solid : x >= y)

\* the part of the placeholder body before its first '/', and the part after
LeftSide(body) ==
    Trimmed(SubSeq(body, 1, (CHOOSE x \in DOMAIN body :
                                body[x] = "/" /\ \A y \in 1..(x - 1) : body[y] # "/") - 1))

RightSide(body) ==
    Trimmed(SubSeq(body, (CHOOSE x \in DOMAIN body :
                             body[x] = "/" /\ \A y \in 1..(x - 1) : body[y] # "/") + 1,
                   Len(body)))

\* a step of the segmenter that returned, at a cursor on character c
SegmentedAt(c) ==
    /\ Building
    /\ i < Len(s)
    /\ At(s, i) = c
    /\ pc' = pc
    /\ s' = s
    /\ Len(parts') = Len(parts) + 1

NestedPattern ==
    <<"[", "a", "A", "]", "(", "?", ":", "[", "b", "B", "]", "(", "?", ":",
      "[", "c", "C", "]", ")", "?", "[", "d", "D", "]", ")", "?", "[", "e", "E", "]">>

SiblingsPattern ==
    <<"(", "?", ":", "[", "a", "A", "]", ")", "?",
      "(", "?", ":", "[", "b", "B", "]", ")", "?">>

TwoTwoPattern ==
    <<"(", "?", ":", "2", ")", "|",
      "(", "?", ":", "[", "t", "T", "]", "[", "w", "W", "]", "[", "o", "O", "]", ")">>

(***************************************************************************)
(* C2: at a '(' at index i the segmenter pairs it with the ')' at the      *)
(* index j where the depth counted from i first returns to zero, emits     *)
(* '(?:' + build_regex(text[i+1..j-1]) + ')?' and continues at j+1; so     *)
(* "a(b(c)d)e" gives nested optional groups and "(a)(b)" two separate ones.*)
(***************************************************************************)
\* C2: a returned segmenter step at '(' appends the optional group of the
\* content up to the matching ')' and moves the cursor past it
C2_Groups ==
    /\ [][SegmentedAt("(") =>
            /\ HasClose(s, i)
            /\ build_regex(Slice(s, i + 1, MatchingClose(s, i))).ok
            /\ parts' = Append(parts,
                   <<"(", "?", ":">>
                   \o build_regex(Slice(s, i + 1, MatchingClose(s, i))).re
                   \o <<")", "?">>)
            /\ i' = MatchingClose(s, i) + 1]_vars
    /\ []((pc = "exit" /\ text1 = Nested) => stdout = <<NestedPattern>>)
    /\ []((pc = "exit" /\ text1 = Siblings) => stdout = <<SiblingsPattern>>)

\* C2 witness: in "a(b(c)d)e" the step at the outer '(' has appended the
\* optional group of "b(c)d" and left the cursor on the 'e' after its ')'
C2_Witness ==
    /\ Building
    /\ text1 = Nested
    /\ i = 8
    /\ parts = << <<"[", "a", "A", "]">>,
                  <<"(", "?", ":", "[", "b", "B", "]", "(", "?", ":",
                    "[", "c", "C", "]", ")", "?", "[", "d", "D", "]", ")", "?">> >>

(***************************************************************************)
(* C3: at a '{' the body runs up to the next '}' of the current string; it *)
(* is split at its first '/', both sides are stripped of whitespace and    *)
(* compiled by build_regex; the fragment is '(?:' + left + ')|(?:' + right *)
(* + ')' and scanning resumes right after the '}'.                         *)
(***************************************************************************)
\* C3: a returned segmenter step at '{' appends the alternation of the two
\* stripped sides of the body and moves the cursor past the '}'
C3_Placeholders ==
    /\ [][SegmentedAt("{") =>
            /\ HasBrace(s, i)
            /\ LET body == Slice(s, i + 1, NextBrace(s, i))
               IN /\ Count(body, "/") >= 1
                  /\ build_regex(LeftSide(body)).ok
                  /\ build_regex(RightSide(body)).ok
                  /\ parts' = Append(parts,
                         <<"(", "?", ":">> \o build_regex(LeftSide(body)).re
                         \o <<")", "|", "(", "?", ":">>
                         \o build_regex(RightSide(body)).re \o <<")">>)
            /\ i' = NextBrace(s, i) + 1]_vars
    /\ []((pc = "exit" /\ text1 = TwoTwo) => stdout = <<TwoTwoPattern>>)

\* "{ 2 / two<TAB>}!": the sides stripped, the scan resumed at '!'
C3_Witness ==
    /\ Succeeded
    /\ text1 = Spaced
    /\ stdout = <<TwoTwoPattern \o <<"!">> >>

(***************************************************************************)
(* C5: every text build_regex compiles has balanced, properly nested       *)
(* parentheses: no text with an unmatched '(' or an unmatched ')' is       *)
(* compiled.                                                               *)
(***************************************************************************)
Balanced(t) ==
    /\ Count(t, "(") = Count(t, ")")
    /\ \A n \in 0..Len(t) : Count(SubSeq(t, 1, n), "(") >= Count(SubSeq(t, 1, n), ")")

\* C5 as stated: a text that compiles has balanced parentheses
C5_Original == Succeeded => Balanced(text1)

(***************************************************************************)
(* C6: in a text build_regex compiles, the body of every placeholder the   *)
(* segmenter processes holds the separator '/' exactly once.               *)
(*                                                                         *)
(* C6_Amended: the body holds '/' at least once; it is split at the first, *)
(* and a further '/' is a character of the right side.                     *)
(***************************************************************************)
\* C6 as stated: the body of a placeholder the segmenter takes holds '/' once
C6_Original ==
    [][SegmentedAt("{") =>
          (HasBrace(s, i) /\ Count(Slice(s, i + 1, NextBrace(s, i)), "/") = 1)]_vars

\* C6 as amended: the body of a placeholder the segmenter takes holds '/' at
\* least once
C6_Amended ==
    /\ [][SegmentedAt("{") =>
            /\ HasBrace(s, i)
            /\ Count(Slice(s, i + 1, NextBrace(s, i)), "/") >= 1]_vars
    /\ [](Succeeded =>
            \A k \in 0..(Len(text1) - 1) :
                (At(text1, k) = "{" /\ build_regex(Slice(text1, 0, k)).ok)
                    => (HasBrace(text1, k)
                        /\ Count(Slice(text1, k + 1, NextBrace(text1, k)), "/") >= 1))

\* a body with two separators, compiled: the second is a literal of the right side
C6_Witness ==
    /\ Succeeded
    /\ text1 = <<"{", "a", "/", "/", "}">>
    /\ stdout = << <<"(", "?", ":", "[", "a", "A", "]", ")", "|", "(", "?", ":", "/", ")">> >>

(***************************************************************************)
(* C9: every segmenter call at cursor i fails or returns a cursor j with   *)
(* i < j <= n; every recursive build_regex call is on a string strictly    *)
(* shorter than the current one; build_regex ends, with a pattern or an    *)
(* error, after at most n segmenter calls at a level.  The end is stated   *)
(* without fairness: until main returns one of the steps can be taken, and *)
(* every step lowers Remaining, which is at most n + 1.                    *)
(***************************************************************************)
\* the segmenter calls the loop of the current level may still make, plus one
\* for its return
Remaining == IF pc = "exit" THEN 0 ELSE Len(s) - i + 1

\* C9: the cursor moves strictly forward within [0, n], a failing call leaves
\* it in place, recursive calls are on shorter strings, and the loop ends
C9_Progress ==
    /\ [][(Building /\ pc' = pc /\ s' = s /\ parts' # parts) =>
             (i < i' /\ i' <= Len(s) /\ Len(parts') = Len(parts) + 1)]_vars
    /\ [][(Building /\ pc' = "exit" /\ rc' = 2) => (i' = i /\ i < Len(s))]_vars
    /\ [](0 <= i /\ i <= Len(s) /\ Len(parts) <= i)
    /\ [](\A x \in DOMAIN calls : Len(calls[x]) < Len(s))
    /\ [](pc = "exit" \/ CanSegment \/ CanRaise \/ CanReturn)
    /\ [][Remaining' < Remaining]_vars

\* the group of "(a {a/b c})d" taken: one call, on the group's content
C9_Witness ==
    /\ Building
    /\ text1 = InGroup
    /\ i = 11
    /\ Len(parts) = 1
    /\ calls = << <<"a", " ", "{", "a", "/", "b", " ", "c", "}">> >>

(***************************************************************************)
(* C10: the alternation of a placeholder applies to its two sides only:    *)
(* the pattern of P + '{L/R}' + S requires the pattern of P, then that of  *)
(* L or that of R, then that of S.                                         *)
(***************************************************************************)
MaxSubject == 3

Subjects == Texts({"a", "/"}, MaxSubject)

\* w is a match of P, then a match of L or of R, then a match of S
MatchesInTurn(P, L, R, S, w) ==
    \E a \in 0..Len(w) : \E b \in a..Len(w) :
        /\ fullmatch(P, Slice(w, 0, a))
        /\ fullmatch(L, Slice(w, a, b)) \/ fullmatch(R, Slice(w, a, b))
        /\ fullmatch(S, Slice(w, b, Len(w)))

\* C10 as stated: the pattern of P + '{L/R}' + S matches exactly the strings
\* made of a match of P, a match of L or of R, and a match of S
C10_Original ==
    Succeeded =>
        \A k \in 0..(Len(text1) - 1) :
            (At(text1, k) = "{" /\ build_regex(Slice(text1, 0, k)).ok) =>
                LET j == NextBrace(text1, k)
                    body == Slice(text1, k + 1, j)
                IN \A w \in Subjects :
                      fullmatch(stdout[1], w) <=>
                          MatchesInTurn(build_regex(Slice(text1, 0, k)).re,
                                        build_regex(LeftSide(body)).re,
                                        build_regex(RightSide(body)).re,
                                        build_regex(Slice(text1, j + 1, Len(text1))).re,
                                        w)

(***************************************************************************)
(* C4: each malformed construct - a '(' without its ')', a '{' without a   *)
(* following '}', a '{...}' body without '/' - at the top or nested, makes *)
(* the whole call fail with its own error kind and no pattern output; with *)
(* two texts a failure in either gives no output at all, and the error of  *)
(* text1 is the one reported when both are malformed.                      *)
(***************************************************************************)
\* the error kinds of the malformed constructs of t: of t's own groups and
\* placeholders, and of the contents of those that are well formed
RECURSIVE Defects(_)
Defects(t) ==
    IF t = <<>> THEN {}
    ELSE IF Head(t) = "("
    THEN IF ~HasClose(t, 0) THEN {UnmatchedParen}
         ELSE Defects(Slice(t, 1, MatchingClose(t, 0)))
              \cup Defects(Slice(t, MatchingClose(t, 0) + 1, Len(t)))
    ELSE IF Head(t) = "{"
    THEN IF ~HasBrace(t, 0) THEN {UnmatchedBrace}
         ELSE LET body == Slice(t, 1, NextBrace(t, 0))
                  rest == Slice(t, NextBrace(t, 0) + 1, Len(t))
              IN IF Count(body, "/") = 0 THEN {InvalidPlaceholder} \cup Defects(rest)
                 ELSE Defects(LeftSide(body)) \cup Defects(RightSide(body))
                      \cup Defects(rest)
    ELSE Defects(Tail(t))

DefectsOf(arg) == IF arg = None THEN {} ELSE Defects(arg)

\* C4: main fails, printing one error of the first malformed text and no
\* pattern, exactly when a text holds a malformed construct
C4_Failures ==
    /\ rc # 0 => stdout = <<>>
    /\ pc = "exit" =>
         /\ (Defects(text1) \cup DefectsOf(text2) = {}) => (rc = 0 /\ stderr = <<>>)
         /\ (Defects(text1) \cup DefectsOf(text2) # {}) =>
               /\ rc = 2
               /\ stdout = <<>>
               /\ Len(stderr) = 2
               /\ stderr[1] = "Error:"
               /\ stderr[2] \in (IF Defects(text1) # {} THEN Defects(text1)
                                 ELSE DefectsOf(text2))
    /\ (pc = "exit" /\ text1 = BadParen) => stderr = <<"Error:", UnmatchedParen>>
    /\ (pc = "exit" /\ text1 = BadPlaceholder) => stderr = <<"Error:", InvalidPlaceholder>>
    /\ (pc = "exit" /\ text1 = BadBrace) => stderr = <<"Error:", UnmatchedBrace>>
    /\ (pc = "exit" /\ text1 = BadInGroup) => stderr = <<"Error:", UnmatchedBrace>>
    /\ (pc = "exit" /\ text1 = BadInSide) => stderr = <<"Error:", UnmatchedParen>>

\* both texts malformed: the error of text1 is reported, nothing is printed
C4_Witness ==
    /\ Failed
    /\ text1 = BadParen
    /\ text2 = BadBrace
    /\ stderr = <<"Error:", UnmatchedParen>>
    /\ stdout = <<>>

(***************************************************************************)
(* C7: with one text the entry point prints build_regex(text1) unwrapped,  *)
(* with two it prints '(?:' + build_regex(text1) + ')|(?:' +               *)
(* build_regex(text2) + ')', for all texts that compile; the result is a   *)
(* function of the texts.                                                  *)
(***************************************************************************)
HiByePattern ==
    <<"(", "?", ":", "[", "h", "H", "]", "[", "i", "I", "]", ")", "|", "(", "?", ":",
      "[", "b", "B", "]", "[", "y", "Y", "]", "[", "e", "E", "]", ")">>

\* C7: main prints build_regex(text1), or the two patterns wrapped in
\* non-capturing groups and joined by '|'
C7_EntryPoint ==
    /\ (pc = "exit" /\ build_regex(text1).ok /\ text2 = None) =>
          (rc = 0 /\ stdout = <<build_regex(text1).re>>)
    /\ (pc = "exit" /\ build_regex(text1).ok /\ text2 # None /\ build_regex(text2).ok) =>
          (rc = 0 /\ stdout = << <<"(", "?", ":">> \o build_regex(text1).re
                                 \o <<")", "|", "(", "?", ":">>
                                 \o build_regex(text2).re \o <<")">> >>)
    /\ (pc = "exit" /\ text1 = Hi /\ text2 = Bye) => stdout = <<HiByePattern>>

C7_Witness ==
    /\ Succeeded
    /\ text1 = Hi
    /\ text2 = Bye
    /\ stdout = <<HiByePattern>>

====
